---- MODULE Spec2Model ----
(***************************************************************************)
(* A model of the mapGen repository:                                       *)
(*   - TileMapRenderer.render (src/mapgen.py): the viewport tiler and the  *)
(*     canvas compositor;                                                  *)
(*   - download_tile / download_bbox (src/no-bullshit-download.py): the    *)
(*     tile acquisition batch.                                             *)
(* Pixel positions are integers.  The centre of a viewport is a float in   *)
(* the code; here it is a fixed-point number of half pixels, so that the   *)
(* truncation done by int() is visible.                                    *)
(***************************************************************************)
EXTENDS Integers, Sequences, FiniteSets, TLC

\* ------------------------------------------------------------------------
\* Bounds of the model
\* ------------------------------------------------------------------------

\* zoom arguments of render range over -1..MaxZoom
MaxZoom == 1

\* small widths and heights range over -1..MaxSmall
MaxSmall == 2

\* centres lie within MaxOff half pixels of a tile corner
MaxOff == 1

\* the bounding box of a download spans 1..MaxSpan+1 tiles per axis at MAX_ZOOM
MaxSpan == 1

\* fetches that may fail, over all the runs of the batch
MaxFail == 2

\* runs of download_bbox over the same store
MaxRuns == 2

\* ------------------------------------------------------------------------
\* Python arithmetic
\* ------------------------------------------------------------------------

Max(a, b) == IF a >= b THEN a ELSE b

Min(a, b) == IF a <= b THEN a ELSE b

\* int(v) of the float v = a2 / 2: truncation toward zero
IntOfHalves(a2) == IF a2 >= 0 THEN a2 \div 2 ELSE -((-a2) \div 2)

\* Mutant of FloorDiv: division that truncates toward zero, as in C
TruncDiv(a, b) == IF a >= 0 THEN a \div b ELSE -((-a) \div b)

\* a // b for b > 0: floor division
FloorDiv(a, b) == a \div b

\* The bounds of the slice  start : stop  of an axis of length len:
\* a negative index counts from the end, both ends are clipped to the axis.
SliceIndex(i, len) == IF i < 0 THEN Max(i + len, 0) ELSE Min(i, len)

PySlice(start, stop, len) ==
    LET lo == SliceIndex(start, len)
        hi == SliceIndex(stop, len)
    IN  [lo |-> lo, n |-> Max(hi - lo, 0)]

\* ------------------------------------------------------------------------
\* TileMapRenderer
\* ------------------------------------------------------------------------

TILE_SIZE == 256

\* What a path of the tile store holds when _load_tile looks at it.
FileStates == {"absent", "corrupt", "image"}

\* The pixel (row r, column c) of the image stored for tile t = <<z, x, y>>,
\* as cv2.imread decodes it: three uint8 channels.  Every tile has its own
\* content and the content varies with the row and with the column.
TilePixel(t, r, c) ==
    << (r + 3 * t[2] + 7 * t[1]) % 256,
       (c + 5 * t[3]) % 256,
       (r * c + t[2] + t[3]) % 256 >>

\* Mutant of ZeroPixel: a canvas that does not start at zero
OnesPixel == <<1, 1, 1>>

ZeroPixel == <<0, 0, 0>>

\* _load_tile: None when the path does not exist; otherwise what cv2.imread
\* returns, which is None too when the file cannot be decoded.
LoadTile(fileState, t) ==
    IF fileState = "absent" THEN "None"
    ELSE IF fileState = "corrupt" THEN "None"
    ELSE "tile"

\* The arguments of render.  cx2, cy2: the centre in global pixel space
\* (tile_x * TILE_SIZE, tile_y * TILE_SIZE), in half pixels.
\* latlon_to_tile_fractional maps the longitude linearly, so tile_x is any
\* number; it clamps the latitude, so 0 <= tile_y <= n = 2^zoom.
Pow2Halves(zoom) == IF zoom < 0 THEN TILE_SIZE ELSE 2 * TILE_SIZE * (2 ^ zoom)

\* The centres tried: within MaxOff half pixels of the corner of the map
\* (pixel 0, 0) and of the corner shared by tiles (0..1, 0..1).
Anchors == {0, 2 * TILE_SIZE}

Centers(zoom) ==
    {c \in UNION {((a - MaxOff)..(a + MaxOff)) \X ((a - MaxOff)..(a + MaxOff)) :
                     a \in Anchors} :
        0 <= c[2] /\ c[2] <= Pow2Halves(zoom)}

Zooms == -1..MaxZoom

\* The least width that covers three tiles from a centre on a tile corner.
Wide == 2 * TILE_SIZE + 1

\* The sizes tried: small ones, the invalid ones 0 and -1 among them, and
\* wide ones in one direction, one pixel or less in the other.
Sizes ==
    {s \in ((-1..MaxSmall) \cup {Wide, -Wide}) \X ((-1..MaxSmall) \cup {Wide}) :
        \/ s[1] <= MaxSmall /\ s[2] <= MaxSmall
        \/ s[1] <= 1
        \/ s[2] <= 1}

\* Lines 74-90 and 114-115 of render: the pixel window, the covering tile
\* range and the crop offsets.
Geometry(a) ==
    LET half_w == FloorDiv(a.width, 2)
        half_h == FloorDiv(a.height, 2)
        min_px_x == IntOfHalves(a.cx2 - 2 * half_w)
        min_px_y == IntOfHalves(a.cy2 - 2 * half_h)
        max_px_x == min_px_x + a.width
        max_px_y == min_px_y + a.height
        tile_x_min == FloorDiv(min_px_x, TILE_SIZE)
        tile_y_min == FloorDiv(min_px_y, TILE_SIZE)
        tile_x_max == FloorDiv(max_px_x - 1, TILE_SIZE)
        tile_y_max == FloorDiv(max_px_y - 1, TILE_SIZE)
    IN  [min_px_x |-> min_px_x, min_px_y |-> min_px_y,
         max_px_x |-> max_px_x, max_px_y |-> max_px_y,
         tile_x_min |-> tile_x_min, tile_y_min |-> tile_y_min,
         tile_x_max |-> tile_x_max, tile_y_max |-> tile_y_max,
         tiles_w |-> tile_x_max - tile_x_min + 1,
         tiles_h |-> tile_y_max - tile_y_min + 1,
         crop_x |-> min_px_x - tile_x_min * TILE_SIZE,
         crop_y |-> min_px_y - tile_y_min * TILE_SIZE]

\* The iterations of the two nested for loops, in the order they are run:
\* tx outermost, ty innermost.
RECURSIVE Column(_, _, _)
Column(tx, ty, ty_max) ==
    IF ty > ty_max THEN <<>> ELSE <<<<tx, ty>>>> \o Column(tx, ty + 1, ty_max)

RECURSIVE LoopOrder(_, _)
LoopOrder(tx, geo) ==
    IF tx > geo.tile_x_max THEN <<>>
    ELSE Column(tx, geo.tile_y_min, geo.tile_y_max) \o LoopOrder(tx + 1, geo)

\* Mutant of BlockOffset: the row and the column offsets exchanged
BlockOffsetSwapped(tx, ty, geo) ==
    << (tx - geo.tile_x_min) * TILE_SIZE, (ty - geo.tile_y_min) * TILE_SIZE >>

\* Mutant of BlockOffset: a stride one pixel short of the tile size
BlockOffsetOverlap(tx, ty, geo) ==
    << (ty - geo.tile_y_min) * (TILE_SIZE - 1),
       (tx - geo.tile_x_min) * (TILE_SIZE - 1) >>

\* The offset of the block of tile (tx, ty) in the canvas: <<cy, cx>>
BlockOffset(tx, ty, geo) ==
    << (ty - geo.tile_y_min) * TILE_SIZE, (tx - geo.tile_x_min) * TILE_SIZE >>

\* The canvas is its shape and the block assignments made to it, oldest
\* first; a pixel holds what the last assignment covering it wrote, and the
\* zero np.zeros put there when there is none.
NoCanvas == [rows |-> -1, cols |-> -1, writes |-> <<>>]

Covers(w, row, col) ==
    /\ w.cy <= row /\ row < w.cy + TILE_SIZE
    /\ w.cx <= col /\ col < w.cx + TILE_SIZE

CanvasAt(cv, row, col) ==
    LET hits == {k \in 1..Len(cv.writes) : Covers(cv.writes[k], row, col)}
    IN  IF hits = {} THEN ZeroPixel
        ELSE LET k == CHOOSE k \in hits : \A m \in hits : m <= k
                 w == cv.writes[k]
             IN  TilePixel(w.tile, row - w.cy, col - w.cx)

\* canvas[cy : cy + TILE_SIZE, cx : cx + TILE_SIZE] = tile  is an error
\* unless the slice has the shape of the tile.
BlockFits(cv, cy, cx) ==
    /\ PySlice(cy, cy + TILE_SIZE, cv.rows).n = TILE_SIZE
    /\ PySlice(cx, cx + TILE_SIZE, cv.cols).n = TILE_SIZE

NoResult == [r0 |-> 0, c0 |-> 0, rows |-> -1, cols |-> -1]

\* Mutant of Crop: the slices end one pixel early
CropOffByOne(cv, geo, a) ==
    LET ys == PySlice(geo.crop_y, geo.crop_y + a.height - 1, cv.rows)
        xs == PySlice(geo.crop_x, geo.crop_x + a.width - 1, cv.cols)
    IN  [r0 |-> ys.lo, c0 |-> xs.lo, rows |-> ys.n, cols |-> xs.n]

\* canvas[crop_y : crop_y + height, crop_x : crop_x + width]
Crop(cv, geo, a) ==
    LET ys == PySlice(geo.crop_y, geo.crop_y + a.height, cv.rows)
        xs == PySlice(geo.crop_x, geo.crop_x + a.width, cv.cols)
    IN  [r0 |-> ys.lo, c0 |-> xs.lo, rows |-> ys.n, cols |-> xs.n]

ResultAt(cv, res, j, i) == CanvasAt(cv, res.r0 + j, res.c0 + i)

\* ------------------------------------------------------------------------
\* no-bullshit-download.py: configuration and tile ranges
\* ------------------------------------------------------------------------

MIN_ZOOM == 8

MAX_ZOOM == 18

\* latlon_to_tile(MAX_LAT, MIN_LON, MAX_ZOOM): the tile of the north-west
\* corner of the configured bounding box at the deepest zoom.
X18_MIN == 146181

Y18_MIN == 86268

\* latlon_to_tile at zoom z of a point given by its tile at MAX_ZOOM.  The
\* code computes int(u * 2^z) from the point's position u in the unit square;
\* u * 2^z is u * 2^MAX_ZOOM scaled down by the power of two 2^(MAX_ZOOM - z),
\* and the coordinates are not negative, so int() is a floor.
LatLonToTile(t18, z) ==
    << FloorDiv(t18[1], 2 ^ (MAX_ZOOM - z)), FloorDiv(t18[2], 2 ^ (MAX_ZOOM - z)) >>

\* The bounding boxes tried: the configured north-west corner, and a
\* south-east corner 0..MaxSpan tiles further at MAX_ZOOM.
\* sw = (MIN_LAT, MIN_LON), ne = (MAX_LAT, MAX_LON), as tiles at MAX_ZOOM.
BBoxes ==
    {[sw |-> <<X18_MIN, Y18_MIN + dy>>, ne |-> <<X18_MIN + dx, Y18_MIN>>] :
        dx \in 0..MaxSpan, dy \in 0..MaxSpan}

NoBBox == [sw |-> <<X18_MIN, Y18_MIN>>, ne |-> <<X18_MIN, Y18_MIN>>]

\* The calls of download_tile one run of download_bbox makes, in order:
\* z outermost, then x, then y.
RECURSIVE TileColumn(_, _, _, _)
TileColumn(z, x, y, y_max) ==
    IF y > y_max THEN <<>>
    ELSE <<<<z, x, y>>>> \o TileColumn(z, x, y + 1, y_max)

RECURSIVE TileRows(_, _, _, _, _)
TileRows(z, x, x_max, y_min, y_max) ==
    IF x > x_max THEN <<>>
    ELSE TileColumn(z, x, y_min, y_max) \o TileRows(z, x + 1, x_max, y_min, y_max)

RECURSIVE BatchOrder(_, _)
BatchOrder(z, box) ==
    IF z > MAX_ZOOM THEN <<>>
    ELSE LET lo == LatLonToTile(box.sw, z)
             hi == LatLonToTile(box.ne, z)
             x_min == lo[1]
             y_max == lo[2]
             x_max == hi[1]
             y_min == hi[2]
         IN  TileRows(z, x_min, x_max, y_min, y_max) \o BatchOrder(z + 1, box)

\* What requests.get and raise_for_status do for one tile: the bytes arrive,
\* requests.get raises (connection error, timeout), or raise_for_status
\* raises (HTTP error status).
FetchOutcomes == {"ok", "get_raises", "status_raises"}

\* Mutant of Caught: except requests.HTTPError, which lets the errors of
\* requests.get through
CaughtHTTPErrorOnly(outcome) == outcome = "status_raises"

\* except Exception: every failure of the fetch is caught and printed.
Caught(outcome) == TRUE

\* Mutant of SkipIfPresent: no test for an existing file
NeverSkip(present) == FALSE

\* os.path.exists(filename): download_tile returns before fetching
SkipIfPresent(present) == present

\* ------------------------------------------------------------------------
\* State
\* ------------------------------------------------------------------------

NoArgs == [zoom |-> 0, width |-> 0, height |-> 0, cx2 |-> 0, cy2 |-> 0]

VARIABLES
    pc,       \* "idle", "loop", "done" (render returned), "error" (it raised)
    args,     \* the arguments of the call
    geo,      \* the locals of render computed before the loop
    order,    \* the iterations of the loop that remain
    canvas,
    store,    \* the tile store as the call has read it: address -> FileStates
    result,
    err       \* the exception raised, "" when none

rvars == <<pc, args, geo, order, canvas, store, result, err>>

VARIABLES
    dpc,       \* "idle", "batch" (download_bbox is in its loops), "done", "aborted"
    bbox,      \* the configured bounding box
    todo,      \* the calls of download_tile that remain in this run
    files,     \* the tile store: address -> bytes of the file (the run that wrote it)
    attempts,  \* the calls of download_tile made in this run, in order
    fetched,   \* the addresses requests.get was called for in this run
    failed,    \* the addresses whose fetch failed in this run
    run,       \* the number of this run; the server's bytes differ from run to run
    fails      \* the fetches that have failed so far

dvars == <<dpc, bbox, todo, files, attempts, fetched, failed, run, fails>>

vars == <<rvars, dvars>>

\* Before render is called; no download is configured.
Init ==
    /\ pc = "idle"
    /\ args = NoArgs
    /\ geo = Geometry(NoArgs)
    /\ order = <<>>
    /\ canvas = NoCanvas
    /\ store = <<>>
    /\ result = NoResult
    /\ err = ""
    /\ dpc = "idle"
    /\ bbox = NoBBox
    /\ todo = <<>>
    /\ files = <<>>
    /\ attempts = <<>>
    /\ fetched = {}
    /\ failed = {}
    /\ run = 0
    /\ fails = 0

\* Before download_bbox is called, the store empty; render is not called.
DownloadInit ==
    /\ pc = "idle"
    /\ args = NoArgs
    /\ geo = Geometry(NoArgs)
    /\ order = <<>>
    /\ canvas = NoCanvas
    /\ store = <<>>
    /\ result = NoResult
    /\ err = ""
    /\ dpc = "idle"
    /\ bbox \in BBoxes
    /\ todo = <<>>
    /\ files = <<>>
    /\ attempts = <<>>
    /\ fetched = {}
    /\ failed = {}
    /\ run = 0
    /\ fails = 0

\* render up to the allocation of the canvas (lines 67-96).  np.zeros raises
\* ValueError on a negative dimension.
RenderCall ==
    /\ pc = "idle"
    /\ \E zoom \in Zooms, s \in Sizes :
       \E c \in Centers(zoom) :
          LET a == [zoom |-> zoom, width |-> s[1], height |-> s[2],
                    cx2 |-> c[1], cy2 |-> c[2]]
              g == Geometry(a)
          IN  /\ args' = a
              /\ geo' = g
              /\ IF g.tiles_w < 0 \/ g.tiles_h < 0
                 THEN /\ pc' = "error"
                      /\ err' = "ValueError"
                      /\ canvas' = NoCanvas
                      /\ order' = <<>>
                 ELSE /\ pc' = "loop"
                      /\ err' = ""
                      /\ canvas' = [rows |-> g.tiles_h * TILE_SIZE,
                                    cols |-> g.tiles_w * TILE_SIZE,
                                    writes |-> <<>>]
                      /\ order' = LoopOrder(g.tile_x_min, g)
    /\ UNCHANGED <<store, result>>
    /\ UNCHANGED dvars

\* One iteration of the loop body (lines 101-111) for the tile t = <<tx, ty>>,
\* the store holding fileState at its path.
PlaceTile(t, fileState) ==
    LET addr == <<args.zoom, t[1], t[2]>>
        off == BlockOffset(t[1], t[2], geo)
    IN  /\ store' = [x \in (DOMAIN store) \cup {addr} |->
                        IF x = addr THEN fileState ELSE store[x]]
        /\ IF LoadTile(fileState, addr) = "None"
           THEN UNCHANGED <<canvas, pc, err>>
           ELSE IF BlockFits(canvas, off[1], off[2])
           THEN /\ canvas' = [canvas EXCEPT !.writes =
                       Append(@, [cy |-> off[1], cx |-> off[2], tile |-> addr])]
                /\ UNCHANGED <<pc, err>>
           ELSE /\ pc' = "error"
                /\ err' = "ValueError"
                /\ UNCHANGED canvas

\* The loop takes the iterations in order.
LoadAndPlace ==
    /\ pc = "loop"
    /\ order # <<>>
    /\ \E fileState \in FileStates : PlaceTile(Head(order), fileState)
    /\ order' = Tail(order)
    /\ UNCHANGED <<args, geo, result>>
    /\ UNCHANGED dvars

\* Lines 114-122: crop and return.
CropAndReturn ==
    /\ pc = "loop"
    /\ order = <<>>
    /\ result' = Crop(canvas, geo, args)
    /\ pc' = "done"
    /\ UNCHANGED <<args, geo, order, canvas, store, err>>
    /\ UNCHANGED dvars

\* The loop body run for the tiles of the covering range in any order: what
\* a parallel loader of the tiles of one call may do.  The crop still waits
\* for every tile.
RemoveAt(sq, k) == SubSeq(sq, 1, k - 1) \o SubSeq(sq, k + 1, Len(sq))

PlaceInAnyOrder ==
    /\ pc = "loop"
    /\ order # <<>>
    /\ \E k \in 1..Len(order) :
          /\ \E fileState \in FileStates : PlaceTile(order[k], fileState)
          /\ order' = RemoveAt(order, k)
    /\ UNCHANGED <<args, geo, result>>
    /\ UNCHANGED dvars

\* The canvas the sequential loop builds from a store: the assignments of
\* the tiles that load, in loop order.
RECURSIVE SequentialWrites(_, _, _, _)
SequentialWrites(ord, st, zoom, g) ==
    IF ord = <<>> THEN <<>>
    ELSE LET t == Head(ord)
             addr == <<zoom, t[1], t[2]>>
             off == BlockOffset(t[1], t[2], g)
         IN  (IF LoadTile(st[addr], addr) = "None" THEN <<>>
              ELSE <<[cy |-> off[1], cx |-> off[2], tile |-> addr]>>)
             \o SequentialWrites(Tail(ord), st, zoom, g)

\* ------------------------------------------------------------------------
\* download_tile and download_bbox
\* ------------------------------------------------------------------------

Present(t) == t \in DOMAIN files

\* download_bbox is called: a run over the store the earlier runs left
BatchStart ==
    /\ dpc \in {"idle", "done"}
    /\ run < MaxRuns
    /\ dpc' = "batch"
    /\ run' = run + 1
    /\ todo' = BatchOrder(MIN_ZOOM, bbox)
    /\ attempts' = <<>>
    /\ fetched' = {}
    /\ failed' = {}
    /\ UNCHANGED <<bbox, files, fails>>
    /\ UNCHANGED rvars

\* download_tile(z, x, y) for t = <<z, x, y>>
DownloadTile(t, outcome) ==
    /\ attempts' = Append(attempts, t)
    /\ IF SkipIfPresent(Present(t))
       THEN UNCHANGED <<files, fetched, failed, fails, dpc>>
       ELSE /\ fetched' = fetched \cup {t}
            /\ IF outcome = "ok"
               THEN /\ files' = [x \in (DOMAIN files) \cup {t} |->
                                    IF x = t THEN run ELSE files[x]]
                    /\ UNCHANGED <<failed, fails, dpc>>
               ELSE /\ failed' = failed \cup {t}
                    /\ fails' = fails + 1
                    /\ dpc' = IF Caught(outcome) THEN dpc ELSE "aborted"
                    /\ UNCHANGED files

\* One iteration of the loops of download_bbox
BatchStep ==
    /\ dpc = "batch"
    /\ todo # <<>>
    /\ \E outcome \in FetchOutcomes :
          /\ outcome # "ok" => fails < MaxFail
          /\ DownloadTile(Head(todo), outcome)
    /\ todo' = Tail(todo)
    /\ UNCHANGED <<bbox, run>>
    /\ UNCHANGED rvars

\* The loops are over: download_bbox returns
BatchEnd ==
    /\ dpc = "batch"
    /\ todo = <<>>
    /\ dpc' = "done"
    /\ UNCHANGED <<bbox, todo, files, attempts, fetched, failed, run, fails>>
    /\ UNCHANGED rvars

DownloadNext == BatchStart \/ BatchStep \/ BatchEnd

AnyOrderNext == RenderCall \/ PlaceInAnyOrder \/ CropAndReturn

\* ------------------------------------------------------------------------
\* Specifications
\* ------------------------------------------------------------------------

\* render, as the code runs it
Next == RenderCall \/ LoadAndPlace \/ CropAndReturn

Spec == Init /\ [][Next]_vars

\* render with the tiles of a call loaded in any order
SpecAnyOrder == Init /\ [][AnyOrderNext]_vars

\* runs of download_bbox
SpecDownload == DownloadInit /\ [][DownloadNext]_vars

\* ------------------------------------------------------------------------
\* Claims about render
\* ------------------------------------------------------------------------

\* The arguments the interface of render allows
ValidArgs(a) == a.zoom >= 0 /\ a.width > 0 /\ a.height > 0

Called == pc # "idle"

Returned == pc = "done"

WindowRows == 0..(args.height - 1)

WindowCols == 0..(args.width - 1)

Seen(addr) == IF addr \in DOMAIN store THEN store[addr] ELSE "unread"

\* C1: render called with zoom >= 0 and positive width and height never
\* raises, and the image it returns has exactly height rows and width
\* columns, wherever the window falls and whatever the store holds.
C1_OutputSize ==
    (Called /\ ValidArgs(args)) =>
        /\ pc # "error"
        /\ Returned => (result.rows = args.height /\ result.cols = args.width)

C1_Witness ==
    /\ Returned /\ ValidArgs(args)
    /\ geo.min_px_x < 0
    /\ geo.tiles_w = 3
    /\ \E a \in DOMAIN store : store[a] = "image"
    /\ \E a \in DOMAIN store : store[a] = "absent"
    /\ result.rows = args.height /\ result.cols = args.width

\* C2: when every tile of the store is absent, render with valid arguments
\* raises nothing and returns a width x height image whose every pixel is
\* zero in every channel.
StoreEmpty == \A a \in DOMAIN store : store[a] = "absent"

C2_EmptyStoreAllZero ==
    (Called /\ ValidArgs(args) /\ StoreEmpty) =>
        /\ pc # "error"
        /\ Returned =>
              /\ result.rows = args.height /\ result.cols = args.width
              /\ \A j \in WindowRows, i \in WindowCols :
                    ResultAt(canvas, result, j, i) = <<0, 0, 0>>

C2_Witness ==
    /\ Returned /\ ValidArgs(args) /\ StoreEmpty
    /\ Cardinality(DOMAIN store) >= 3
    /\ args.width > TILE_SIZE
    /\ ResultAt(canvas, result, args.height - 1, args.width - 1) = <<0, 0, 0>>

\* C3: render called with a negative zoom, or a width or height <= 0, is
\* rejected at once with InvalidArgument: no tile is loaded, no canvas is
\* allocated, no image is returned.
C3_InvalidArgumentRejected ==
    (Called /\ ~ValidArgs(args)) =>
        /\ pc = "error" /\ err = "InvalidArgument"
        /\ store = <<>>
        /\ canvas = NoCanvas
        /\ result = NoResult

\* C4: when a tile of the covering range is in the store but cannot be
\* decoded, render raises TileReadError; it never returns an image.
SawCorrupt == \E a \in DOMAIN store : store[a] = "corrupt"

C4_CorruptTileAborts ==
    (Called /\ ValidArgs(args) /\ SawCorrupt) =>
        /\ ~Returned
        /\ pc = "error" => err = "TileReadError"

\* C5: for valid arguments the crop offsets are in 0..255, the crop rectangle
\* lies inside the canvas, and the canvas has at least one tile per axis.
C5_CropInsideCanvas ==
    (Called /\ ValidArgs(args)) =>
        /\ 0 <= geo.crop_x /\ geo.crop_x < 256
        /\ 0 <= geo.crop_y /\ geo.crop_y < 256
        /\ geo.tiles_w >= 1 /\ geo.tiles_h >= 1
        /\ geo.crop_x + args.width <= geo.tiles_w * 256
        /\ geo.crop_y + args.height <= geo.tiles_h * 256
        /\ pc # "error" =>
              /\ canvas.cols = geo.tiles_w * 256
              /\ canvas.rows = geo.tiles_h * 256

C5_Witness ==
    /\ Called /\ ValidArgs(args)
    /\ geo.min_px_x < 0 /\ geo.min_px_y < 0
    /\ geo.crop_x = 255 /\ geo.crop_y = 255
    /\ geo.tiles_w = 2

\* C7: the image returned is pixel-exact: pixel (row j, column i) is global
\* pixel (min_px_x + i, min_px_y + j); it is pixel (gy mod 256, gx mod 256) of
\* tile (floor(gx/256), floor(gy/256)) at the zoom of the call when the store
\* holds that tile's image, and zero when the tile is absent.
C7_PixelExact ==
    (Returned /\ ValidArgs(args)) =>
        \A j \in WindowRows, i \in WindowCols :
            LET gx == geo.min_px_x + i
                gy == geo.min_px_y + j
                t == <<args.zoom, gx \div 256, gy \div 256>>
                px == ResultAt(canvas, result, j, i)
            IN  /\ j < result.rows /\ i < result.cols
                /\ Seen(t) \in {"image", "absent", "corrupt"}
                /\ Seen(t) = "image" => px = TilePixel(t, gy % 256, gx % 256)
                /\ Seen(t) = "absent" => px = <<0, 0, 0>>

C7_Witness ==
    /\ Returned /\ ValidArgs(args)
    /\ geo.tiles_w = 2 /\ geo.tiles_h = 2
    /\ geo.crop_x > 0 /\ geo.crop_y > 0
    /\ Cardinality({a \in DOMAIN store : store[a] = "image"}) >= 3
    /\ \E a \in DOMAIN store : store[a] = "absent"
    /\ ResultAt(canvas, result, 0, 0) # <<0, 0, 0>>
    /\ ResultAt(canvas, result, args.height - 1, args.width - 1) # <<0, 0, 0>>

\* C8: the blocks written for two distinct tiles of one call never overlap,
\* so whatever the order in which the tiles are loaded and placed, once all
\* are placed the canvas and the cropped image are those of the sequential
\* loop.
Disjoint(w1, w2) ==
    \/ w1.cy + TILE_SIZE <= w2.cy \/ w2.cy + TILE_SIZE <= w1.cy
    \/ w1.cx + TILE_SIZE <= w2.cx \/ w2.cx + TILE_SIZE <= w1.cx

SequentialCanvas ==
    [canvas EXCEPT !.writes =
        SequentialWrites(LoopOrder(geo.tile_x_min, geo), store, args.zoom, geo)]

C8_OrderIndependent ==
    /\ \A k, m \in 1..Len(canvas.writes) :
          k # m => /\ canvas.writes[k].tile # canvas.writes[m].tile
                   /\ Disjoint(canvas.writes[k], canvas.writes[m])
    /\ (Returned /\ ValidArgs(args)) =>
          LET seq == SequentialCanvas
              seqResult == Crop(seq, geo, args)
          IN  /\ {canvas.writes[k] : k \in 1..Len(canvas.writes)}
                   = {seq.writes[k] : k \in 1..Len(seq.writes)}
              /\ result = seqResult
              /\ \A j \in WindowRows, i \in WindowCols :
                    ResultAt(canvas, result, j, i) = ResultAt(seq, seqResult, j, i)

C8_Witness ==
    /\ Returned /\ ValidArgs(args)
    /\ Len(canvas.writes) >= 3
    /\ canvas.writes # SequentialCanvas.writes
    /\ geo.crop_x > 0

\* ------------------------------------------------------------------------
\* Claims about download_bbox and download_tile
\* ------------------------------------------------------------------------

\* The tile range of every zoom from MIN_ZOOM to MAX_ZOOM
ExpectedTiles ==
    {t \in UNION {{z} \X ((bbox.sw[1] \div 2 ^ (18 - z))..(bbox.ne[1] \div 2 ^ (18 - z)))
                      \X ((bbox.ne[2] \div 2 ^ (18 - z))..(bbox.sw[2] \div 2 ^ (18 - z))) :
                  z \in 8..18} : TRUE}

Times(sq, t) == Cardinality({k \in 1..Len(sq) : sq[k] = t})

Elements(sq) == {sq[k] : k \in 1..Len(sq)}

\* C9: a fetch that fails never aborts the batch: download_tile is still
\* called exactly once for every tile of the range of every zoom, the run
\* goes on to its end, and a tile whose fetch failed has no file in the store.
C9_FailureDoesNotAbort ==
    /\ dpc # "aborted"
    /\ \A t \in failed : t \notin DOMAIN files
    /\ \A t \in Elements(attempts) : t \in ExpectedTiles /\ Times(attempts, t) = 1
    /\ dpc = "batch" =>
          /\ Elements(attempts) \cup Elements(todo) = ExpectedTiles
          /\ Elements(attempts) \cap Elements(todo) = {}
          /\ ENABLED (BatchStep \/ BatchEnd)
    /\ dpc = "done" => \A t \in ExpectedTiles : Times(attempts, t) = 1

C9_Witness ==
    /\ dpc = "done"
    /\ Cardinality(failed) = 2
    /\ \E k, m \in 1..Len(attempts) :
          /\ k < m
          /\ attempts[k] \in failed
          /\ attempts[m] \in DOMAIN files /\ files[attempts[m]] = run
    /\ Len(attempts) > 11

\* C10: download_tile for a tile whose file is in the store fetches nothing
\* and leaves the store as it is; over any runs, a file once written keeps
\* its bytes.
C10_NeverOverwritten ==
    [][ /\ \A t \in DOMAIN files : t \in DOMAIN files' /\ files'[t] = files[t]
        /\ (dpc = "batch" /\ todo # <<>> /\ Head(todo) \in DOMAIN files) =>
              /\ fetched' = fetched
              /\ files' = files
              /\ attempts' = Append(attempts, Head(todo)) ]_vars

C10_Witness ==
    /\ dpc = "done" /\ run = 2
    /\ \E t \in DOMAIN files : files[t] = 1
    /\ \E t \in DOMAIN files : files[t] = 2
    /\ \E t \in Elements(attempts) : t \notin fetched /\ files[t] = 1

====
